---------------------------- MODULE Spec2Model ----------------------------
(***************************************************************************)
(* A model of the Book Vault client (React): the LibraryProvider bookmark  *)
(* state, the route table with its ProtectedRoute guard, the sidebar       *)
(* logout, the BookDetails page, the Dashboard filter and the BookCard.    *)
(*                                                                         *)
(* The specifications share the variables; each explores one part and      *)
(* leaves the state of the others at its initial value:                    *)
(*   Spec                the application: session, routes, bookmarks;      *)
(*   SpecBookDetails     the BookDetails page: review form and toasts;     *)
(*   SpecDashboard       the Dashboard: its three inputs, the derived      *)
(*                       list, the cover image of each BookCard;           *)
(*   SpecRecommendations the Regenerate button and its timers;             *)
(*   SpecAudioPlayer     the mock audio player;                            *)
(*   SpecServer          the documented cover and book-listing endpoints;  *)
(*   SpecListings        the empty states of Dashboard and Bookmarks;      *)
(*   SpecUseLibrary      useLibrary() called anywhere in a component tree. *)
(* The state of a page is local useState cells that nothing else reads.    *)
(*                                                                         *)
(* Strings whose characters matter (titles, authors, the search query, the *)
(* review text) are sequences of one-character strings.                    *)
(***************************************************************************)
EXTENDS Integers, Sequences, FiniteSets, TLC

VARIABLES
    isAuthenticated,    \* AuthContext: useAuth().isAuthenticated
    location,           \* BrowserRouter: the matched route and its :id
    bookmarks,          \* LibraryProvider: the latest bookmarks state
    renderedBookmarks,  \* the bookmarks value the last render closed over
    booksData,          \* '@/data/books.json', the imported catalog
    searchQuery,        \* Dashboard: useState('')
    genreFilter,        \* Dashboard: useState('all')
    languageFilter,     \* Dashboard: useState('all')
    imgStatus,          \* per catalog id: the <img> of its rendered BookCard
    review,             \* BookDetails: useState('')
    rating,             \* BookDetails: useState(5)
    toasts,             \* titles passed to toast(), oldest first
    timers,             \* Recommendations: setTimeout callbacks not yet run
    recommendationsData,\* '@/data/recommendations.json'
    isPlaying,          \* AudioPlayer: useState(false)
    progress,           \* AudioPlayer: useState([30]), the one slider value
    volume,             \* AudioPlayer: useState([70]), the one slider value
    covers,             \* server: per file, the cover stored under covers/
    extractions,        \* server: per file, the extractions run so far
    parsed,             \* server: the metadata parsed from the last filename
    hookResult,         \* what the last useLibrary() call returned or threw
    event,              \* history: the last operation and its argument
    prevBookmarks       \* history: bookmarks before the last operation

regenVars == <<timers, recommendationsData>>
audioVars == <<isPlaying, progress, volume>>
serverVars == <<covers, extractions, parsed>>

vars == <<isAuthenticated, location, bookmarks, renderedBookmarks, booksData,
          searchQuery, genreFilter, languageFilter, imgStatus, review, rating,
          toasts, regenVars, audioVars, serverVars, hookResult, event,
          prevBookmarks>>

-----------------------------------------------------------------------------
(* Bounds *)

MaxBookmarks == 2
MaxQueryLen == 2
MaxReviewLen == 1
MaxToasts == 2
MaxNameLen == 5
MaxExtractions == 2
MaxRegenerate == 2
MaxDepth == 3

-----------------------------------------------------------------------------
(* Strings *)

Str(chars, n) == UNION {[1..k -> chars] : k \in 0..n}

Range(s) == {s[i] : i \in 1..Len(s)}

\* String.prototype.toLowerCase on one character of the model's alphabet
LowerChar(c) ==
    CASE c = "A" -> "a"
      [] c = "B" -> "b"
      [] c = "C" -> "c"
      [] OTHER -> c

toLowerCaseIdentity(s) == s

toLowerCase(s) == [i \in 1..Len(s) |-> LowerChar(s[i])]

includesExact(hay, needle) == hay = needle

includesNonEmpty(hay, needle) ==
    /\ needle # <<>>
    /\ \E i \in 0..(Len(hay) - Len(needle)) :
          SubSeq(hay, i + 1, i + Len(needle)) = needle

\* String.prototype.includes: needle occurs in hay at some offset
includes(hay, needle) ==
    \E i \in 0..(Len(hay) - Len(needle)) :
        SubSeq(hay, i + 1, i + Len(needle)) = needle

\* Array.prototype.includes
arrayIncludes(arr, x) == \E i \in 1..Len(arr) : arr[i] = x

-----------------------------------------------------------------------------
(* The catalog *)

Review(u, r, c) == [user |-> u, rating |-> r, comment |-> c]

Catalog ==
    << [id |-> "1", title |-> <<"A", "b">>, author |-> <<"c">>,
        genre |-> "Fiction", language |-> "English",
        reviews |-> <<Review("u1", 5, "good")>>],
       [id |-> "2", title |-> <<"b", "a">>, author |-> <<"a", "B">>,
        genre |-> "Science", language |-> "English",
        reviews |-> <<>>],
       [id |-> "3", title |-> <<"C">>, author |-> <<"B">>,
        genre |-> "Fiction", language |-> "Hindi",
        reviews |-> <<Review("u2", 4, "fine"), Review("u1", 3, "ok")>>] >>

CatalogIds == {Catalog[i].id : i \in 1..Len(Catalog)}

\* an id no catalog book has
ForeignId == "9"

BookIds == CatalogIds \cup {ForeignId}

QueryChars == {"a", "A", "b"}
Queries == Str(QueryChars, MaxQueryLen)

ReviewChars == {"x"}
ReviewTexts == Str(ReviewChars, MaxReviewLen)

InitialRating == 5
Stars == {1, 2, 3, 4, 5}

-----------------------------------------------------------------------------
(* Routes *)

Loc(path, id) == [path |-> path, id |-> id]

HomeLoc == Loc("/", "")
AuthLoc == Loc("/auth", "")
DashboardLoc == Loc("/dashboard", "")
NotFoundLoc == Loc("*", "")

ProtectedPaths ==
    {"/dashboard", "/book/:id", "/recommendations", "/bookmarks", "/profile",
     "/audio"}

Locations ==
    {HomeLoc, AuthLoc, NotFoundLoc}
    \cup {Loc(p, "") : p \in ProtectedPaths \ {"/book/:id"}}
    \cup {Loc("/book/:id", id) : id \in BookIds}

\* DashboardSidebar menuItems
menuItems == {"/dashboard", "/recommendations", "/bookmarks", "/profile"}

\* a guard that renders its children whoever asks
ProtectedRouteOpen(auth, loc) == loc

\* ProtectedRoute: the children when authenticated, <Navigate to="/auth"/> otherwise
ProtectedRoute(auth, loc) == IF auth THEN loc ELSE AuthLoc

\* <Routes>: the location the router settles on for a requested location
Routes(auth, loc) ==
    IF loc.path \in ProtectedPaths THEN ProtectedRoute(auth, loc) ELSE loc

-----------------------------------------------------------------------------
(* LibraryProvider *)

\* setBookmarks([...bookmarks, bookId]): the update is built from the bookmarks
\* of the render that created the handler
addBookmarkStale(prev, bookId) == Append(renderedBookmarks, bookId)

\* setBookmarks(prev => [...prev, bookId])
addBookmark(prev, bookId) == Append(prev, bookId)

RECURSIVE RemoveFirst(_, _)
RemoveFirst(s, x) ==
    IF s = <<>> THEN <<>>
    ELSE IF Head(s) = x THEN Tail(s)
    ELSE <<Head(s)>> \o RemoveFirst(Tail(s), x)

removeBookmarkFirstOnly(prev, bookId) == RemoveFirst(prev, bookId)

\* prev.splice(prev.indexOf(bookId), 1): one occurrence, or the last element
\* when indexOf finds none
removeBookmarkSplice(prev, bookId) ==
    IF bookId \in Range(prev)
    THEN RemoveFirst(prev, bookId)
    ELSE SubSeq(prev, 1, Len(prev) - 1)

\* setBookmarks(prev => prev.filter(id => id !== bookId))
removeBookmark(prev, bookId) == SelectSeq(prev, LAMBDA id : id # bookId)

\* isBookmarked closes over the bookmarks of the render that created it
isBookmarked(bookId) == arrayIncludes(renderedBookmarks, bookId)

\* every queued setBookmarks update has been rendered
Committed == renderedBookmarks = bookmarks

-----------------------------------------------------------------------------
(* Dashboard *)

RECURSIVE Distinct(_)
\* [...new Set(xs)]: the distinct values in order of first occurrence
Distinct(xs) ==
    IF xs = <<>> THEN <<>>
    ELSE LET init == Distinct(SubSeq(xs, 1, Len(xs) - 1))
             last == xs[Len(xs)]
         IN IF arrayIncludes(init, last) THEN init ELSE Append(init, last)

\* ['all', ...booksData.map(book => book.genre)]: one option per book
genresPerBook == <<"all">> \o [i \in 1..Len(booksData) |-> booksData[i].genre]

\* ['all', ...new Set(booksData.map(book => book.genre))]
genres == <<"all">> \o Distinct([i \in 1..Len(booksData) |-> booksData[i].genre])

languages ==
    <<"all">> \o Distinct([i \in 1..Len(booksData) |-> booksData[i].language])

matchesSearchBoth(book, q) ==
    /\ includes(toLowerCase(book.title), toLowerCase(q))
    /\ includes(toLowerCase(book.author), toLowerCase(q))

matchesSearch(book, q) ==
    \/ includes(toLowerCase(book.title), toLowerCase(q))
    \/ includes(toLowerCase(book.author), toLowerCase(q))

matchesGenre(book, g) == g = "all" \/ book.genre = g

matchesLanguage(book, l) == l = "all" \/ book.language = l

FilterBooks(books, q, g, l) ==
    SelectSeq(books, LAMBDA book :
        matchesSearch(book, q) /\ matchesGenre(book, g) /\ matchesLanguage(book, l))

filteredBooks == FilterBooks(booksData, searchQuery, genreFilter, languageFilter)

-----------------------------------------------------------------------------
(* Bookmarks page, BookDetails page *)

\* bookmarks.map(id => booksData.find(...)): one card per bookmark entry, in the
\* order the bookmarks were added
bookmarkedBooksInAddedOrder ==
    LET found == SelectSeq(renderedBookmarks,
                           LAMBDA id : \E b \in Range(booksData) : b.id = id)
    IN [i \in 1..Len(found) |->
            CHOOSE b \in Range(booksData) : b.id = found[i]]

\* booksData.filter(book => bookmarks.includes(book.id))
bookmarkedBooks ==
    SelectSeq(booksData, LAMBDA book : arrayIncludes(renderedBookmarks, book.id))

Ids(books) == {books[i].id : i \in 1..Len(books)}

Undefined == [undefined |-> TRUE]

\* booksData.find(b => b.id === id)
find(books, id) ==
    IF \E i \in 1..Len(books) : books[i].id = id
    THEN books[CHOOSE i \in 1..Len(books) :
                  /\ books[i].id = id
                  /\ \A j \in 1..(i - 1) : books[j].id # id]
    ELSE Undefined

book == find(booksData, location.id)

BookDetailsControls ==
    {"sidebar", "back", "readSample", "listen", "bookmark", "rating",
     "reviewText", "submitReview"}

BookDetailsViewNoGuard(found) ==
    [message |-> "", redirect |-> FALSE, controls |-> BookDetailsControls]

\* what BookDetails returns: the fallback when find gave undefined
BookDetailsView(found) ==
    IF found = Undefined
    THEN [message |-> "Book not found", redirect |-> FALSE,
          controls |-> {"sidebar"}]
    ELSE [message |-> "", redirect |-> FALSE, controls |-> BookDetailsControls]

NoBooksFound == "No books found matching your criteria."
NoBookmarksYet == "No bookmarks yet"

\* Dashboard: the grid of filteredBooks, and the message when
\* filteredBooks.length === 0
DashboardView ==
    [cards |-> Ids(filteredBooks),
     message |-> IF Len(filteredBooks) = 0 THEN NoBooksFound ELSE ""]

\* a Bookmarks page that decides on bookmarks.length > 0
BookmarksViewByEntries ==
    IF Len(renderedBookmarks) > 0
    THEN [cards |-> Ids(bookmarkedBooks), panel |-> ""]
    ELSE [cards |-> {}, panel |-> NoBookmarksYet]

\* Bookmarks: bookmarkedBooks.length > 0 ? the grid : the panel
BookmarksView ==
    IF Len(bookmarkedBooks) > 0
    THEN [cards |-> Ids(bookmarkedBooks), panel |-> ""]
    ELSE [cards |-> {}, panel |-> NoBookmarksYet]

\* the catalog ids whose BookCard the current page renders
CardsShown ==
    CASE location.path = "/dashboard" -> Ids(filteredBooks)
      [] location.path = "/bookmarks" -> Ids(bookmarkedBooks)
      [] OTHER -> {}

-----------------------------------------------------------------------------
(* Recommendations page *)

\* the ids of the imported recommendations, in file order
Recommended == <<"r1", "r2">>

Generating == "Generating Recommendations..."
Done == "Done!"

InitRegen ==
    /\ timers = 0
    /\ recommendationsData = Recommended

\* the number of toast() calls made with a title
Count(log, title) == Cardinality({i \in 1..Len(log) : log[i] = title})

-----------------------------------------------------------------------------
(* AudioPlayer page *)

InitialProgress == 30
InitialVolume == 70
SliderMin == 0
SliderMax == 100

\* where the pointer is dragged to, in slider units: positions on the track, its
\* two ends, and one beyond each end
PointerPositions == {-1, 0, 1, 30, 70, 99, 100, 101}

\* the Slider reports the position clamped to [min, max]
sliderValue(raw) ==
    IF raw < SliderMin THEN SliderMin
    ELSE IF raw > SliderMax THEN SliderMax
    ELSE raw

InitAudio ==
    /\ isPlaying = FALSE
    /\ progress = InitialProgress
    /\ volume = InitialVolume

-----------------------------------------------------------------------------
(* The backend, as its documentation describes it *)

\* objects in the S3 bucket whose covers are requested
Bucket == {<<"a", "_", "a">>, <<"a">>}

FileChars == {"a", "_"}
\* the part of a file name before ".pdf"
FileNames == Str(FileChars, MaxNameLen) \ {<<>>}

NoCover == 0

InitServer ==
    /\ covers = [f \in Bucket |-> NoCover]
    /\ extractions = [f \in Bucket |-> 0]
    /\ parsed = [title |-> <<>>, author |-> <<>>, genre |-> <<>>]

\* str.split(sep): the pieces of s between the occurrences of sep
RECURSIVE split(_, _)
split(s, sep) ==
    IF \A i \in 1..Len(s) : s[i] # sep
    THEN <<s>>
    ELSE LET k == CHOOSE i \in 1..Len(s) :
                      s[i] = sep /\ \A j \in 1..(i - 1) : s[j] # sep
         IN <<SubSeq(s, 1, k - 1)>> \o split(SubSeq(s, k + 1, Len(s)), sep)

Unknown == <<"Unknown">>

\* the metadata the book listing reports for a file name: the piece after the
\* first underscore is taken as the author whenever there is one
parseFilename(name) ==
    LET parts == split(name, "_") IN
    IF Len(parts) >= 2
    THEN [title |-> parts[1], author |-> parts[2],
          genre |-> IF Len(parts) >= 3 THEN parts[3] ELSE Unknown]
    ELSE [title |-> name, author |-> Unknown, genre |-> Unknown]

-----------------------------------------------------------------------------
(* LibraryContext and useLibrary *)

\* the value a LibraryProvider with these bookmarks passes down
ContextValue(bm) ==
    [bookmarks |-> bm, addBookmark |-> "function",
     removeBookmark |-> "function", isBookmarked |-> "function"]

\* an ancestor of the calling component: a LibraryProvider, or anything else
ProviderElement(bm) == [provider |-> TRUE, bookmarks |-> bm]
OtherElement == [provider |-> FALSE, bookmarks |-> <<>>]
Elements == {OtherElement} \cup {ProviderElement(bm) : bm \in Str(BookIds, 1)}

\* the ancestors of a component, outermost first
AncestorChains == UNION {[1..k -> Elements] : k \in 0..MaxDepth}

\* useContext(LibraryContext): the value of the nearest LibraryProvider above
\* the caller, or the default given to createContext, undefined
useContext(ancestors) ==
    IF \E i \in 1..Len(ancestors) : ancestors[i].provider
    THEN LET nearest == CHOOSE i \in 1..Len(ancestors) :
                            /\ ancestors[i].provider
                            /\ \A j \in (i + 1)..Len(ancestors) :
                                  ~ancestors[j].provider
         IN ContextValue(ancestors[nearest].bookmarks)
    ELSE Undefined

MustBeUsedWithin == "useLibrary must be used within LibraryProvider"

\* a hook that hands on whatever useContext gave
useLibraryUnchecked(ancestors) == [returned |-> useContext(ancestors)]

\* useLibrary: if (!context) throw new Error(...); return context
useLibrary(ancestors) ==
    LET context == useContext(ancestors) IN
    IF context = Undefined
    THEN [threw |-> MustBeUsedWithin]
    ELSE [returned |-> context]

InitHook == hookResult = [called |-> FALSE]

-----------------------------------------------------------------------------
(* Initial state: the page has just loaded *)

InitialImgStatus == [id \in CatalogIds |-> "none"]

Init ==
    /\ isAuthenticated = FALSE
    /\ location = HomeLoc
    /\ bookmarks = <<>>
    /\ renderedBookmarks = <<>>
    /\ booksData = Catalog
    /\ searchQuery = <<>>
    /\ genreFilter = "all"
    /\ languageFilter = "all"
    /\ imgStatus = InitialImgStatus
    /\ review = <<>>
    /\ rating = InitialRating
    /\ toasts = <<>>
    /\ InitRegen /\ InitAudio /\ InitServer /\ InitHook
    /\ event = [op |-> "load", arg |-> HomeLoc]
    /\ prevBookmarks = <<>>

dashVars == <<searchQuery, genreFilter, languageFilter, imgStatus>>

Log(op, arg) ==
    /\ event' = [op |-> op, arg |-> arg]
    /\ prevBookmarks' = bookmarks

\* the router settles on Routes(auth, loc); a page's useState cells last as long
\* as its route element, so they are fresh whenever the matched route changes
GoTo(auth, loc) ==
    LET target == Routes(auth, loc) IN
    /\ location' = target
    /\ IF target.path = location.path
       THEN UNCHANGED <<review, rating>>
       ELSE review' = <<>> /\ rating' = InitialRating

-----------------------------------------------------------------------------
(* Session and navigation *)

\* AuthContext.login, called from the Auth page
login ==
    /\ Committed
    /\ location = AuthLoc
    /\ ~isAuthenticated
    /\ isAuthenticated' = TRUE
    /\ UNCHANGED <<regenVars, audioVars, serverVars, hookResult>>
    /\ Log("login", "")
    /\ UNCHANGED <<location, bookmarks, renderedBookmarks, booksData, dashVars,
                   review, rating, toasts>>

\* a logout whose navigate('/') loses to the guard of the page being left
handleLogoutGuardWins ==
    /\ Committed
    /\ location.path \in ProtectedPaths
    /\ isAuthenticated' = FALSE
    /\ GoTo(FALSE, location)
    /\ UNCHANGED <<regenVars, audioVars, serverVars, hookResult>>
    /\ Log("logout", "")
    /\ UNCHANGED <<bookmarks, renderedBookmarks, booksData, dashVars, toasts>>

\* DashboardSidebar.handleLogout: logout(); navigate('/'); both state updates
\* are made in one event handler and rendered together
handleLogout ==
    /\ Committed
    /\ location.path \in ProtectedPaths
    /\ isAuthenticated' = FALSE
    /\ GoTo(FALSE, HomeLoc)
    /\ UNCHANGED <<regenVars, audioVars, serverVars, hookResult>>
    /\ Log("logout", "")
    /\ UNCHANGED <<bookmarks, renderedBookmarks, booksData, dashVars, toasts>>

\* a location change inside the loaded page: a <Link>, navigate(...), or the
\* browser's back and forward buttons
Navigate(loc) ==
    /\ Committed
    /\ GoTo(isAuthenticated, loc)
    /\ UNCHANGED <<regenVars, audioVars, serverVars, hookResult>>
    /\ Log("navigate", loc)
    /\ UNCHANGED <<isAuthenticated, bookmarks, renderedBookmarks, booksData,
                   dashVars, toasts>>

\* DashboardSidebar: <Link to={item.path}>
SidebarLink(path) ==
    /\ location.path \in ProtectedPaths
    /\ Navigate(Loc(path, ""))

\* BookCard: navigate(`/book/${id}`)
ViewDetails(id) ==
    /\ id \in CardsShown
    /\ Navigate(Loc("/book/:id", id))

\* whether the session outlives a page load
restoreSession(auth) == {FALSE, auth}

ReloadRestoring(loc) ==
    /\ Committed
    /\ isAuthenticated' \in restoreSession(isAuthenticated)
    /\ location' = Routes(isAuthenticated', loc)
    /\ bookmarks' = bookmarks
    /\ renderedBookmarks' = bookmarks
    /\ review' = <<>>
    /\ rating' = InitialRating
    /\ toasts' = <<>>
    /\ UNCHANGED <<regenVars, audioVars, serverVars, hookResult>>
    /\ Log("reload", loc)
    /\ UNCHANGED <<booksData, dashVars>>

\* the page is loaded anew at a URL: every provider and page is constructed again
Reload(loc) ==
    /\ Committed
    /\ isAuthenticated' \in restoreSession(isAuthenticated)
    /\ location' = Routes(isAuthenticated', loc)
    /\ bookmarks' = <<>>
    /\ renderedBookmarks' = <<>>
    /\ review' = <<>>
    /\ rating' = InitialRating
    /\ toasts' = <<>>
    /\ UNCHANGED <<regenVars, audioVars, serverVars, hookResult>>
    /\ Log("reload", loc)
    /\ UNCHANGED <<booksData, dashVars>>

-----------------------------------------------------------------------------
(* Bookmark operations *)

\* the pages whose components take addBookmark and removeBookmark from useLibrary
\* (BookCard on Dashboard and Bookmarks, BookDetails)
LibraryCallers == {"/dashboard", "/bookmarks", "/book/:id"}

\* a component calls addBookmark(bookId); React renders later
AddBookmarkCall(bookId) ==
    /\ location.path \in LibraryCallers
    /\ Len(bookmarks) < MaxBookmarks
    /\ bookmarks' = addBookmark(bookmarks, bookId)
    /\ UNCHANGED <<regenVars, audioVars, serverVars, hookResult>>
    /\ Log("addBookmark", bookId)
    /\ UNCHANGED <<isAuthenticated, location, renderedBookmarks, booksData,
                   dashVars, review, rating, toasts>>

\* a component calls removeBookmark(bookId); React renders later
RemoveBookmarkCall(bookId) ==
    /\ location.path \in LibraryCallers
    /\ bookmarks' = removeBookmark(bookmarks, bookId)
    /\ UNCHANGED <<regenVars, audioVars, serverVars, hookResult>>
    /\ Log("removeBookmark", bookId)
    /\ UNCHANGED <<isAuthenticated, location, renderedBookmarks, booksData,
                   dashVars, review, rating, toasts>>

\* React renders the provider with the queued updates applied
Render ==
    /\ ~Committed
    /\ renderedBookmarks' = bookmarks
    /\ UNCHANGED <<regenVars, audioVars, serverVars, hookResult>>
    /\ Log("render", "")
    /\ UNCHANGED <<isAuthenticated, location, bookmarks, booksData, dashVars,
                   review, rating, toasts>>

\* onClick={() => bookmarked ? removeBookmark(id) : addBookmark(id)}
toggle(bookId) ==
    IF isBookmarked(bookId)
    THEN bookmarks' = removeBookmark(bookmarks, bookId)
    ELSE /\ Len(bookmarks) < MaxBookmarks
         /\ bookmarks' = addBookmark(bookmarks, bookId)

\* the bookmark button of a rendered BookCard
BookCardBookmark(id) ==
    /\ Committed
    /\ id \in CardsShown
    /\ toggle(id)
    /\ UNCHANGED <<regenVars, audioVars, serverVars, hookResult>>
    /\ Log("bookmarkControl", id)
    /\ UNCHANGED <<isAuthenticated, location, renderedBookmarks, booksData,
                   dashVars, review, rating, toasts>>

\* the bookmark button of the BookDetails page
BookDetailsBookmark ==
    /\ Committed
    /\ location.path = "/book/:id"
    /\ "bookmark" \in BookDetailsView(book).controls
    /\ toggle(book.id)
    /\ UNCHANGED <<regenVars, audioVars, serverVars, hookResult>>
    /\ Log("bookmarkControl", book.id)
    /\ UNCHANGED <<isAuthenticated, location, renderedBookmarks, booksData,
                   dashVars, review, rating, toasts>>

-----------------------------------------------------------------------------
(* BookDetails: the review form *)

\* <Textarea onChange={(e) => setReview(e.target.value)}>
setReview(text) ==
    /\ Committed
    /\ location.path = "/book/:id"
    /\ "reviewText" \in BookDetailsView(book).controls
    /\ review' = text
    /\ UNCHANGED <<regenVars, audioVars, serverVars, hookResult>>
    /\ Log("setReview", text)
    /\ UNCHANGED <<isAuthenticated, location, bookmarks, renderedBookmarks,
                   booksData, dashVars, rating, toasts>>

\* <button onClick={() => setRating(star)}>
setRating(star) ==
    /\ Committed
    /\ location.path = "/book/:id"
    /\ "rating" \in BookDetailsView(book).controls
    /\ rating' = star
    /\ UNCHANGED <<regenVars, audioVars, serverVars, hookResult>>
    /\ Log("setRating", star)
    /\ UNCHANGED <<isAuthenticated, location, bookmarks, renderedBookmarks,
                   booksData, dashVars, review, toasts>>

AddReviewStoring(books, id, r, text) ==
    [i \in 1..Len(books) |->
        IF books[i].id = id
        THEN [books[i] EXCEPT !.reviews = Append(@, Review("me", r, text))]
        ELSE books[i]]

\* what handleAddReview does to the catalog: nothing
AddReview(books, id, r, text) == books

\* toast({ title: 'Review Added!', ... }); setReview('')
handleAddReview ==
    /\ Committed
    /\ location.path = "/book/:id"
    /\ "submitReview" \in BookDetailsView(book).controls
    /\ Len(toasts) < MaxToasts
    /\ toasts' = Append(toasts, "Review Added!")
    /\ review' = <<>>
    /\ booksData' = AddReview(booksData, book.id, rating, review)
    /\ UNCHANGED <<regenVars, audioVars, serverVars, hookResult>>
    /\ Log("submitReview", review)
    /\ UNCHANGED <<isAuthenticated, location, bookmarks, renderedBookmarks,
                   dashVars, rating>>

-----------------------------------------------------------------------------
(* Dashboard: the three inputs and the cover images of the rendered cards *)

\* the <img> of a card is created when the card is mounted and dropped with it
MountCards(shown, status) ==
    [id \in CatalogIds |->
        IF id \in shown
        THEN IF status[id] = "none" THEN "loading" ELSE status[id]
        ELSE "none"]

\* <Input onChange={(e) => setSearchQuery(e.target.value)}>
setSearchQuery(q) ==
    /\ location.path = "/dashboard"
    /\ searchQuery' = q
    /\ imgStatus' = MountCards(
           Ids(FilterBooks(booksData, q, genreFilter, languageFilter)), imgStatus)
    /\ UNCHANGED <<regenVars, audioVars, serverVars, hookResult>>
    /\ Log("setSearchQuery", q)
    /\ UNCHANGED <<isAuthenticated, location, bookmarks, renderedBookmarks,
                   booksData, genreFilter, languageFilter, review, rating, toasts>>

\* <Select onValueChange={setGenreFilter}> over the options of genres
setGenreFilter(g) ==
    /\ location.path = "/dashboard"
    /\ arrayIncludes(genres, g)
    /\ genreFilter' = g
    /\ imgStatus' = MountCards(
           Ids(FilterBooks(booksData, searchQuery, g, languageFilter)), imgStatus)
    /\ UNCHANGED <<regenVars, audioVars, serverVars, hookResult>>
    /\ Log("setGenreFilter", g)
    /\ UNCHANGED <<isAuthenticated, location, bookmarks, renderedBookmarks,
                   booksData, searchQuery, languageFilter, review, rating, toasts>>

\* <Select onValueChange={setLanguageFilter}> over the options of languages
setLanguageFilter(l) ==
    /\ location.path = "/dashboard"
    /\ arrayIncludes(languages, l)
    /\ languageFilter' = l
    /\ imgStatus' = MountCards(
           Ids(FilterBooks(booksData, searchQuery, genreFilter, l)), imgStatus)
    /\ UNCHANGED <<regenVars, audioVars, serverVars, hookResult>>
    /\ Log("setLanguageFilter", l)
    /\ UNCHANGED <<isAuthenticated, location, bookmarks, renderedBookmarks,
                   booksData, searchQuery, genreFilter, review, rating, toasts>>

\* the browser finishes fetching the src of a card's <img>
ImgLoaded(id) ==
    /\ imgStatus[id] = "loading"
    /\ imgStatus' = [imgStatus EXCEPT ![id] = "loaded"]
    /\ UNCHANGED <<regenVars, audioVars, serverVars, hookResult>>
    /\ Log("imgLoaded", id)
    /\ UNCHANGED <<isAuthenticated, location, bookmarks, renderedBookmarks,
                   booksData, searchQuery, genreFilter, languageFilter, review,
                   rating, toasts>>

\* the browser fails to fetch or decode the src of a card's <img>
ImgFailed(id) ==
    /\ imgStatus[id] = "loading"
    /\ imgStatus' = [imgStatus EXCEPT ![id] = "error"]
    /\ UNCHANGED <<regenVars, audioVars, serverVars, hookResult>>
    /\ Log("imgFailed", id)
    /\ UNCHANGED <<isAuthenticated, location, bookmarks, renderedBookmarks,
                   booksData, searchQuery, genreFilter, languageFilter, review,
                   rating, toasts>>

\* what a BookCard shows in its cover area: it renders <img src={cover}
\* alt={title}> and nothing else, with no onLoad or onError handler
BookCardCover(status) ==
    CASE status = "loading" -> "pending image"
      [] status = "loaded" -> "cover"
      [] status = "error" -> "broken image"
      [] OTHER -> "not rendered"

-----------------------------------------------------------------------------
(* Recommendations page: the Regenerate button *)

\* a Regenerate that restarts one shared timer
handleRegenerateDebounced ==
    /\ location.path = "/recommendations"
    /\ Count(toasts, Generating) < MaxRegenerate
    /\ toasts' = Append(toasts, Generating)
    /\ timers' = 1
    /\ Log("regenerate", "")
    /\ UNCHANGED <<isAuthenticated, location, bookmarks, renderedBookmarks,
                   booksData, dashVars, review, rating, recommendationsData,
                   audioVars, serverVars, hookResult>>

\* handleRegenerate: toast(...); setTimeout(() => toast(...), 2000)
handleRegenerate ==
    /\ location.path = "/recommendations"
    /\ Count(toasts, Generating) < MaxRegenerate
    /\ toasts' = Append(toasts, Generating)
    /\ timers' = timers + 1
    /\ Log("regenerate", "")
    /\ UNCHANGED <<isAuthenticated, location, bookmarks, renderedBookmarks,
                   booksData, dashVars, review, rating, recommendationsData,
                   audioVars, serverVars, hookResult>>

\* the callback of one setTimeout runs; nothing ever clears a timer, so it
\* runs whichever page is mounted by then
TimerFires ==
    /\ timers > 0
    /\ toasts' = Append(toasts, Done)
    /\ timers' = timers - 1
    /\ Log("timer", "")
    /\ UNCHANGED <<isAuthenticated, location, bookmarks, renderedBookmarks,
                   booksData, dashVars, review, rating, recommendationsData,
                   audioVars, serverVars, hookResult>>

-----------------------------------------------------------------------------
(* AudioPlayer page: the controls *)

\* a play button that only ever starts playback
togglePlayAlwaysOn ==
    /\ location.path = "/audio"
    /\ isPlaying' = TRUE
    /\ Log("togglePlay", "")
    /\ UNCHANGED <<isAuthenticated, location, bookmarks, renderedBookmarks,
                   booksData, dashVars, review, rating, toasts, regenVars,
                   progress, volume, serverVars, hookResult>>

\* onClick={() => setIsPlaying(!isPlaying)}; a click is rendered before the
\* next click is handled
togglePlay ==
    /\ location.path = "/audio"
    /\ isPlaying' = ~isPlaying
    /\ Log("togglePlay", "")
    /\ UNCHANGED <<isAuthenticated, location, bookmarks, renderedBookmarks,
                   booksData, dashVars, review, rating, toasts, regenVars,
                   progress, volume, serverVars, hookResult>>

\* the SkipBack and SkipForward buttons have no onClick
Skip(button) ==
    /\ location.path = "/audio"
    /\ Log(button, "")
    /\ UNCHANGED <<isAuthenticated, location, bookmarks, renderedBookmarks,
                   booksData, dashVars, review, rating, toasts, regenVars,
                   audioVars, serverVars, hookResult>>

\* progress Slider: onValueChange={setProgress}
setProgress(raw) ==
    /\ location.path = "/audio"
    /\ progress' = sliderValue(raw)
    /\ Log("setProgress", raw)
    /\ UNCHANGED <<isAuthenticated, location, bookmarks, renderedBookmarks,
                   booksData, dashVars, review, rating, toasts, regenVars,
                   isPlaying, volume, serverVars, hookResult>>

\* volume Slider: onValueChange={setVolume}
setVolume(raw) ==
    /\ location.path = "/audio"
    /\ volume' = sliderValue(raw)
    /\ Log("setVolume", raw)
    /\ UNCHANGED <<isAuthenticated, location, bookmarks, renderedBookmarks,
                   booksData, dashVars, review, rating, toasts, regenVars,
                   isPlaying, progress, serverVars, hookResult>>

-----------------------------------------------------------------------------
(* Backend endpoints *)

\* pdf_cover_extractor: download the PDF, render its first page, upload the
\* image under covers/; a failed extraction stores nothing
Extract(f, ok) ==
    /\ extractions[f] < MaxExtractions
    /\ extractions' = [extractions EXCEPT ![f] = @ + 1]
    /\ covers' = IF ok THEN [covers EXCEPT ![f] = extractions'[f]] ELSE covers

\* GET /book/{filename}/cover extracting on every request
GetCoverAlwaysExtracting(f) ==
    /\ \E ok \in BOOLEAN : Extract(f, ok)
    /\ Log("getCover", [file |-> f, cover |-> covers'[f],
                        extracted |-> extractions'[f] # extractions[f]])
    /\ UNCHANGED <<isAuthenticated, location, bookmarks, renderedBookmarks,
                   booksData, dashVars, review, rating, toasts, regenVars,
                   audioVars, parsed, hookResult>>

\* GET /book/{filename}/cover
GetCover(f) ==
    /\ IF covers[f] # NoCover
       THEN UNCHANGED <<covers, extractions>>
       ELSE \E ok \in BOOLEAN : Extract(f, ok)
    /\ Log("getCover", [file |-> f, cover |-> covers'[f],
                        extracted |-> extractions'[f] # extractions[f]])
    /\ UNCHANGED <<isAuthenticated, location, bookmarks, renderedBookmarks,
                   booksData, dashVars, review, rating, toasts, regenVars,
                   audioVars, parsed, hookResult>>

\* POST /book/{filename}/cover/extract
ForceExtractCover(f) ==
    /\ \E ok \in BOOLEAN : Extract(f, ok)
    /\ Log("forceExtract", [file |-> f, cover |-> covers'[f],
                             extracted |-> extractions'[f] # extractions[f]])
    /\ UNCHANGED <<isAuthenticated, location, bookmarks, renderedBookmarks,
                   booksData, dashVars, review, rating, toasts, regenVars,
                   audioVars, parsed, hookResult>>

\* the book listing reads the metadata of one object from its name
ListBook(name) ==
    /\ parsed' = parseFilename(name)
    /\ Log("listBook", name)
    /\ UNCHANGED <<isAuthenticated, location, bookmarks, renderedBookmarks,
                   booksData, dashVars, review, rating, toasts, regenVars,
                   audioVars, covers, extractions, hookResult>>

-----------------------------------------------------------------------------
(* A component calls useLibrary *)

\* a component with these ancestors renders and calls useLibrary()
CallUseLibrary(ancestors) ==
    /\ hookResult' = useLibrary(ancestors)
    /\ Log("useLibrary", ancestors)
    /\ UNCHANGED <<isAuthenticated, location, bookmarks, renderedBookmarks,
                   booksData, dashVars, review, rating, toasts, regenVars,
                   audioVars, serverVars>>

-----------------------------------------------------------------------------
(* Specifications *)

\* the application
Next ==
    \/ login
    \/ handleLogout
    \/ \E loc \in Locations : Navigate(loc)
    \/ \E path \in menuItems : SidebarLink(path)
    \/ \E id \in CatalogIds : ViewDetails(id)
    \/ \E loc \in Locations : Reload(loc)
    \/ \E id \in BookIds : AddBookmarkCall(id)
    \/ \E id \in BookIds : RemoveBookmarkCall(id)
    \/ Render
    \/ \E id \in CatalogIds : BookCardBookmark(id)
    \/ BookDetailsBookmark

Spec == Init /\ [][Next]_vars

\* the BookDetails page of a logged-in user, opened at any /book/:id
InitBookDetails ==
    /\ isAuthenticated = TRUE
    /\ location \in {Loc("/book/:id", id) : id \in BookIds}
    /\ bookmarks = <<>>
    /\ renderedBookmarks = <<>>
    /\ booksData = Catalog
    /\ searchQuery = <<>>
    /\ genreFilter = "all"
    /\ languageFilter = "all"
    /\ imgStatus = InitialImgStatus
    /\ review = <<>>
    /\ rating = InitialRating
    /\ toasts = <<>>
    /\ InitRegen /\ InitAudio /\ InitServer /\ InitHook
    /\ event = [op |-> "navigate", arg |-> location]
    /\ prevBookmarks = <<>>

NextBookDetails ==
    \/ \E text \in ReviewTexts : setReview(text)
    \/ \E star \in Stars : setRating(star)
    \/ handleAddReview
    \/ BookDetailsBookmark
    \/ Render
    \/ \E id \in BookIds : Navigate(Loc("/book/:id", id))

SpecBookDetails == InitBookDetails /\ [][NextBookDetails]_vars

\* the Dashboard of a logged-in user, just mounted
InitDashboard ==
    /\ isAuthenticated = TRUE
    /\ location = DashboardLoc
    /\ bookmarks = <<>>
    /\ renderedBookmarks = <<>>
    /\ booksData = Catalog
    /\ searchQuery = <<>>
    /\ genreFilter = "all"
    /\ languageFilter = "all"
    /\ imgStatus = MountCards(Ids(filteredBooks), InitialImgStatus)
    /\ review = <<>>
    /\ rating = InitialRating
    /\ toasts = <<>>
    /\ InitRegen /\ InitAudio /\ InitServer /\ InitHook
    /\ event = [op |-> "navigate", arg |-> DashboardLoc]
    /\ prevBookmarks = <<>>

NextDashboard ==
    \/ \E q \in Queries : setSearchQuery(q)
    \/ \E g \in Range(genres) : setGenreFilter(g)
    \/ \E l \in Range(languages) : setLanguageFilter(l)
    \/ \E id \in CatalogIds : ImgLoaded(id)
    \/ \E id \in CatalogIds : ImgFailed(id)

SpecDashboard == InitDashboard /\ [][NextDashboard]_vars

\* the Recommendations page of a logged-in user, and where they go from it;
\* the page stays loaded, so every timer set is run after its delay
InitRecommendations ==
    /\ isAuthenticated = TRUE
    /\ location = Loc("/recommendations", "")
    /\ bookmarks = <<>>
    /\ renderedBookmarks = <<>>
    /\ booksData = Catalog
    /\ searchQuery = <<>>
    /\ genreFilter = "all"
    /\ languageFilter = "all"
    /\ imgStatus = InitialImgStatus
    /\ review = <<>>
    /\ rating = InitialRating
    /\ toasts = <<>>
    /\ InitRegen /\ InitAudio /\ InitServer /\ InitHook
    /\ event = [op |-> "navigate", arg |-> location]
    /\ prevBookmarks = <<>>

NextRecommendations ==
    \/ handleRegenerate
    \/ TimerFires
    \/ \E loc \in Locations : Navigate(loc)

SpecRecommendations ==
    InitRecommendations /\ [][NextRecommendations]_vars /\ WF_vars(TimerFires)

\* the AudioPlayer page of a logged-in user, from its mount on
InitAudioPlayer ==
    /\ isAuthenticated = TRUE
    /\ location = Loc("/audio", "")
    /\ bookmarks = <<>>
    /\ renderedBookmarks = <<>>
    /\ booksData = Catalog
    /\ searchQuery = <<>>
    /\ genreFilter = "all"
    /\ languageFilter = "all"
    /\ imgStatus = InitialImgStatus
    /\ review = <<>>
    /\ rating = InitialRating
    /\ toasts = <<>>
    /\ InitRegen /\ InitAudio /\ InitServer /\ InitHook
    /\ event = [op |-> "navigate", arg |-> location]
    /\ prevBookmarks = <<>>

NextAudioPlayer ==
    \/ togglePlay
    \/ \E button \in {"skipBack", "skipForward"} : Skip(button)
    \/ \E raw \in PointerPositions : setProgress(raw)
    \/ \E raw \in PointerPositions : setVolume(raw)

SpecAudioPlayer == InitAudioPlayer /\ [][NextAudioPlayer]_vars

\* the two listing pages of a logged-in user: the Dashboard with its inputs,
\* or the Bookmarks page while components add and remove bookmarks
InitListings ==
    /\ isAuthenticated = TRUE
    /\ location \in {DashboardLoc, Loc("/bookmarks", "")}
    /\ bookmarks = <<>>
    /\ renderedBookmarks = <<>>
    /\ booksData = Catalog
    /\ searchQuery = <<>>
    /\ genreFilter = "all"
    /\ languageFilter = "all"
    /\ imgStatus = IF location = DashboardLoc
                   THEN MountCards(Ids(filteredBooks), InitialImgStatus)
                   ELSE InitialImgStatus
    /\ review = <<>>
    /\ rating = InitialRating
    /\ toasts = <<>>
    /\ InitRegen /\ InitAudio /\ InitServer /\ InitHook
    /\ event = [op |-> "navigate", arg |-> location]
    /\ prevBookmarks = <<>>

NextListings ==
    \/ \E q \in Queries : setSearchQuery(q)
    \/ \E g \in Range(genres) : setGenreFilter(g)
    \/ \E l \in Range(languages) : setLanguageFilter(l)
    \/ \E id \in BookIds : location.path = "/bookmarks" /\ AddBookmarkCall(id)
    \/ \E id \in BookIds : location.path = "/bookmarks" /\ RemoveBookmarkCall(id)
    \/ Render

SpecListings == InitListings /\ [][NextListings]_vars

\* the backend: cover requests for the objects of the bucket, and listings
NextServer ==
    \/ \E f \in Bucket : GetCover(f)
    \/ \E f \in Bucket : ForceExtractCover(f)
    \/ \E name \in FileNames : ListBook(name)

SpecServer == Init /\ [][NextServer]_vars

\* components anywhere in a tree calling useLibrary
NextUseLibrary == \E ancestors \in AncestorChains : CallUseLibrary(ancestors)

SpecUseLibrary == Init /\ [][NextUseLibrary]_vars

-----------------------------------------------------------------------------
(* Properties *)

Members(s) == {s[i] : i \in 1..Len(s)}

\* s is t with some elements left out, the rest in the order of t
IsSubList(s, t) ==
    \E f \in [1..Len(s) -> 1..Len(t)] :
        /\ \A i \in 1..Len(s) : s[i] = t[f[i]]
        /\ \A i \in 1..Len(s), j \in 1..Len(s) : i < j => f[i] < f[j]

\* C1: no book id occurs more than once in bookmarks, whatever addBookmark and
\* removeBookmark calls were made.
C1_NoDuplicateBookmarks ==
    \A i \in 1..Len(bookmarks), j \in 1..Len(bookmarks) :
        i # j => bookmarks[i] # bookmarks[j]

\* C2: an activation of a book's bookmark control (BookCard or BookDetails, on a
\* rendered page) flips that book's membership and leaves the membership of
\* every other book as it was.
C2_BookmarkTogglesMembership ==
    event.op = "bookmarkControl" =>
        /\ (event.arg \in Members(bookmarks)) # (event.arg \in Members(prevBookmarks))
        /\ \A id \in BookIds \ {event.arg} :
              (id \in Members(bookmarks)) = (id \in Members(prevBookmarks))

\* C2 witness: a control was activated for a bookmarked book while another
\* entry was present, and the book is no longer bookmarked.
C2_Witness ==
    /\ event.op = "bookmarkControl"
    /\ event.arg \in Members(prevBookmarks)
    /\ event.arg \notin Members(bookmarks)
    /\ Len(prevBookmarks) = 2

\* C3: a new login (after a logout, with no page load in between) starts with
\* an empty bookmark set.
C3_NewSessionStartsEmpty ==
    event.op = "login" => bookmarks = <<>> /\ renderedBookmarks = <<>>

\* two characters that differ at most in case
SameLetter(c, d) ==
    c = d \/ {c, d} \in {{"a", "A"}, {"b", "B"}, {"c", "C"}}

\* q occurs in text at some offset, letter case ignored
ContainsIgnoringCase(text, q) ==
    \E off \in 0..(Len(text) - Len(q)) :
        \A k \in 1..Len(q) : SameLetter(text[off + k], q[k])

ShouldShow(b) ==
    /\ ContainsIgnoringCase(b.title, searchQuery)
       \/ ContainsIgnoringCase(b.author, searchQuery)
    /\ genreFilter = "all" \/ genreFilter = b.genre
    /\ languageFilter = "all" \/ languageFilter = b.language

\* C4: a book is on the Dashboard iff the query occurs in its title or author
\* (case ignored) and each of the two filters is 'all' or equals the book's
\* value; the books shown are in catalog order.
C4_ShownIffMatches ==
    /\ \A i \in 1..Len(booksData) :
          (booksData[i] \in Members(filteredBooks)) <=> ShouldShow(booksData[i])
    /\ IsSubList(filteredBooks, booksData)

\* C4 witness: a lower-case query that matches only through upper-case letters
\* of a title and an author, narrowed by the genre filter to one book.
C4_Witness ==
    /\ searchQuery = <<"a", "b">>
    /\ genreFilter = "Science"
    /\ languageFilter = "all"
    /\ Ids(filteredBooks) = {"2"}

NarrowingStep ==
    \/ /\ genreFilter = "all" /\ genreFilter' # "all"
       /\ searchQuery' = searchQuery /\ languageFilter' = languageFilter
    \/ /\ languageFilter = "all" /\ languageFilter' # "all"
       /\ searchQuery' = searchQuery /\ genreFilter' = genreFilter
    \/ /\ Len(searchQuery') > Len(searchQuery)
       /\ SubSeq(searchQuery', 1, Len(searchQuery)) = searchQuery
       /\ genreFilter' = genreFilter /\ languageFilter' = languageFilter

\* C5: the Dashboard list is a sub-list of the catalog, and a step that sets a
\* filter from 'all' to a value, or appends characters to the query, with the
\* other inputs unchanged, never adds a book.
C5_FilterNarrows ==
    [][ /\ IsSubList(filteredBooks, booksData)
        /\ IsSubList(FilterBooks(booksData', searchQuery', genreFilter',
                                 languageFilter'), booksData')
        /\ NarrowingStep =>
              Members(FilterBooks(booksData', searchQuery', genreFilter',
                                  languageFilter')) \subseteq Members(filteredBooks)
      ]_vars

\* C5 witness: the query has been typed out to two characters and one book of
\* three is left.
C5_Witness ==
    /\ event.op = "setSearchQuery"
    /\ searchQuery = <<"b", "a">>
    /\ Ids(filteredBooks) = {"2"}

\* the books the two filters alone let through
PassFilters(b) ==
    /\ genreFilter = "all" \/ genreFilter = b.genre
    /\ languageFilter = "all" \/ languageFilter = b.language

\* C6: with the empty query and both filters at 'all' the list is the whole
\* catalog, each book once, in order; the empty query excludes no book that
\* passes the two filters.
C6_EmptyQueryShowsAll ==
    searchQuery = <<>> =>
        /\ (genreFilter = "all" /\ languageFilter = "all")
              => filteredBooks = booksData
        /\ \A i \in 1..Len(booksData) :
              PassFilters(booksData[i]) => booksData[i] \in Members(filteredBooks)
        /\ IsSubList(filteredBooks, booksData)

\* C6 witness: the search input reported the empty value with both filters at
\* 'all', and all three books are listed.
C6_Witness ==
    /\ event.op = "setSearchQuery"
    /\ searchQuery = <<>>
    /\ genreFilter = "all"
    /\ languageFilter = "all"
    /\ Len(filteredBooks) = 3

\* C7: the bookmark set is empty when the application starts and again after
\* every page load.
C7_BookmarksTransient ==
    event.op \in {"load", "reload"} =>
        bookmarks = <<>> /\ renderedBookmarks = <<>>

\* C7 witness: the page was loaded anew while books were bookmarked.
C7_Witness ==
    /\ event.op = "reload"
    /\ prevBookmarks # <<>>
    /\ bookmarks = <<>>

ReviewAndBookmarkControls == {"bookmark", "rating", "reviewText", "submitReview"}

\* C8: a logged-in user's navigation to /book/:id with an id of no catalog
\* book stays on that route and shows 'Book not found' without bookmark or
\* review controls; bookmarks and authentication are as before.
C8_BookNotFoundFallback ==
    [][ ( /\ event'.op = "navigate"
          /\ event'.arg.path = "/book/:id"
          /\ event'.arg.id \notin Ids(booksData)
          /\ isAuthenticated )
        => /\ location' = event'.arg
           /\ BookDetailsView(find(booksData', location'.id)).message
                 = "Book not found"
           /\ BookDetailsView(find(booksData', location'.id)).controls
                 \cap ReviewAndBookmarkControls = {}
           /\ ~BookDetailsView(find(booksData', location'.id)).redirect
           /\ bookmarks' = bookmarks
           /\ isAuthenticated' = isAuthenticated
      ]_vars

\* C8 witness: a logged-in user with a bookmark has opened /book/9.
C8_Witness ==
    /\ event.op = "navigate"
    /\ location = Loc("/book/:id", ForeignId)
    /\ isAuthenticated
    /\ bookmarks # <<>>

\* C9: Submit Review appends the 'Review Added!' toast and clears the review
\* text; the catalog, the selected rating, the bookmarks, the session and the
\* route are unchanged.
C9_SubmitReviewChangesNoBook ==
    [][ /\ booksData' = booksData
        /\ event'.op = "submitReview" =>
              /\ toasts' = Append(toasts, "Review Added!")
              /\ review' = <<>>
              /\ rating' = rating
              /\ bookmarks' = bookmarks
              /\ renderedBookmarks' = renderedBookmarks
              /\ isAuthenticated' = isAuthenticated
              /\ location' = location
      ]_vars

\* C9 witness: a non-empty review with a rating other than the initial one was
\* submitted for a bookmarked catalog book.
C9_Witness ==
    /\ event.op = "submitReview"
    /\ event.arg # <<>>
    /\ review = <<>>
    /\ rating # InitialRating
    /\ location.id \in Members(bookmarks)

\* C10: once the image of a rendered BookCard has loaded or failed, the card
\* shows the cover or the default book icon, never a broken cover.
C10_CoverOrDefaultIcon ==
    \A id \in CatalogIds :
        imgStatus[id] \in {"loaded", "error"} =>
            BookCardCover(imgStatus[id]) \in {"cover", "default icon"}

\* C11: a GET for a file whose cover is stored returns that cover and runs no
\* extraction; an extraction is run only by a GET for a file with no stored
\* cover or by the POST that forces one; a stored cover is replaced only by
\* that POST.
C11_CoverExtractedOnce ==
    [][ \A f \in Bucket :
          /\ (event'.op = "getCover" /\ event'.arg.file = f /\ covers[f] # NoCover) =>
                /\ extractions'[f] = extractions[f]
                /\ covers'[f] = covers[f]
                /\ event'.arg.cover = covers[f]
          /\ extractions'[f] # extractions[f] =>
                /\ event'.arg.file = f
                /\ \/ event'.op = "forceExtract"
                   \/ event'.op = "getCover" /\ covers[f] = NoCover
          /\ (covers[f] # NoCover /\ covers'[f] # covers[f]) =>
                event'.op = "forceExtract" /\ event'.arg.file = f
      ]_vars

\* C11 witness: after a cover was extracted and then replaced by a forced
\* extraction, a GET returned the stored cover without extracting.
C11_Witness ==
    /\ event.op = "getCover"
    /\ ~event.arg.extracted
    /\ event.arg.cover = 2
    /\ extractions[event.arg.file] = 2

\* the three pieces of a name of the form title_author_genre
MatchesPattern(name) ==
    \E i \in 1..Len(name), j \in 1..Len(name) :
        /\ i < j
        /\ \A k \in 1..Len(name) : (name[k] = "_") = (k \in {i, j})

\* C12: a listed file whose name is not of the form title_author_genre has the
\* name as its title and "Unknown" as its author and as its genre.
C12_UnknownUnlessThreeParts ==
    (event.op = "listBook" /\ ~MatchesPattern(event.arg)) =>
        /\ parsed.title = event.arg
        /\ parsed.author = Unknown
        /\ parsed.genre = Unknown


\* the six pages behind the guard
GuardedPages ==
    {"/dashboard", "/book/:id", "/recommendations", "/bookmarks", "/profile",
     "/audio"}

\* C13: a guarded page is rendered only while isAuthenticated; a navigation or
\* page load aimed at a guarded page while unauthenticated ends at /auth, and
\* any other navigation or page load ends at the location asked for.
C13_RouteGuard ==
    /\ location.path \in GuardedPages => isAuthenticated
    /\ event.op \in {"navigate", "reload"} =>
          IF event.arg.path \in GuardedPages /\ ~isAuthenticated
          THEN location = AuthLoc
          ELSE location = event.arg

\* C13 witness: an unauthenticated visitor asked for /profile and is at /auth.
C13_Witness ==
    /\ event.op = "navigate"
    /\ event.arg.path = "/profile"
    /\ ~isAuthenticated
    /\ location = AuthLoc

C15_RegenerateFireAndForget ==
    /\ [](Count(toasts, Done) + timers = Count(toasts, Generating))
    /\ [](recommendationsData = Recommended)
    /\ [][event'.op = "regenerate" => toasts' = Append(toasts, Generating)]_vars
    /\ \A n \in 0..MaxRegenerate :
          (timers > 0 /\ Count(toasts, Done) = n) ~> (Count(toasts, Done) > n)

\* C15 witness: Regenerate was activated twice before any timer ran, the user
\* left the page, and both "Done!" toasts were shown afterwards.
C15_Witness ==
    /\ toasts = <<Generating, Generating, Done, Done>>
    /\ timers = 0
    /\ event.op = "timer"
    /\ location.path # "/recommendations"

\* C16: the Bookmarks page lists catalog books only, each at most once and in
\* catalog order, and a catalog book is listed exactly when its id is among the
\* bookmarks the page was rendered with.
C16_BookmarksPageList ==
    location.path = "/bookmarks" =>
        /\ IsSubList(bookmarkedBooks, booksData)
        /\ \A id \in BookIds :
              (\E i \in 1..Len(bookmarkedBooks) : bookmarkedBooks[i].id = id)
                  = (id \in Members(renderedBookmarks) /\ id \in CatalogIds)
        /\ Committed => Ids(bookmarkedBooks) = Members(bookmarks) \cap CatalogIds

\* C16 witness: the page is rendered with book 3 bookmarked before book 1.
C16_Witness ==
    /\ location.path = "/bookmarks"
    /\ Committed
    /\ bookmarks = <<"3", "1">>

\* C17: the count on the Profile page, bookmarks.length, is the number of books
\* the Bookmarks page lists.
C17_ProfileCountIsListLength == Len(renderedBookmarks) = Len(bookmarkedBooks)

C19_NoLostUpdate ==
    /\ event.op = "addBookmark" => bookmarks = Append(prevBookmarks, event.arg)
    /\ event.op = "removeBookmark" =>
          /\ event.arg \notin Members(bookmarks)
          /\ \A id \in Members(prevBookmarks) \ {event.arg} :
                id \in Members(bookmarks)

\* C19 witness: two different ids were added from one rendered snapshot, the
\* empty one, and both are bookmarked.
C19_Witness ==
    /\ event.op = "addBookmark"
    /\ renderedBookmarks = <<>>
    /\ Len(bookmarks) = 2
    /\ bookmarks[1] # bookmarks[2]

\* C20: the player starts paused with progress 30 and volume 70; progress and
\* volume stay within 0..100; a play/pause activation flips isPlaying and
\* changes neither slider; a skip control changes none of the three; progress
\* changes only by its slider, volume only by its slider, isPlaying only by
\* play/pause.
C20_AudioPlayerControls ==
    /\ (isPlaying = FALSE /\ progress = 30 /\ volume = 70)
    /\ [](progress \in 0..100 /\ volume \in 0..100)
    /\ [][ /\ event'.op = "togglePlay" =>
                 /\ isPlaying' = ~isPlaying
                 /\ progress' = progress
                 /\ volume' = volume
           /\ event'.op \in {"skipBack", "skipForward"} =>
                 /\ isPlaying' = isPlaying
                 /\ progress' = progress
                 /\ volume' = volume
           /\ progress' # progress => event'.op = "setProgress"
           /\ volume' # volume => event'.op = "setVolume"
           /\ isPlaying' # isPlaying => event'.op = "togglePlay"
          ]_vars

\* C20 witness: with both sliders moved to an end of their track, playback was
\* started and paused again.
C20_Witness ==
    /\ event.op = "togglePlay"
    /\ ~isPlaying
    /\ progress = 100
    /\ volume = 0

\* C21: the Dashboard shows "No books found matching your criteria." exactly
\* when no catalog book matches the query and the filters, which is exactly
\* when it shows no card; the Bookmarks page shows the "No bookmarks yet" panel
\* exactly when no id it was rendered with is the id of a catalog book, which
\* is exactly when it shows no card.
C21_EmptyStateIffNothingListed ==
    /\ location.path = "/dashboard" =>
          /\ (DashboardView.message = "No books found matching your criteria.")
                <=> ~ \E i \in 1..Len(booksData) : ShouldShow(booksData[i])
          /\ (DashboardView.message # "") <=> (DashboardView.cards = {})
    /\ location.path = "/bookmarks" =>
          /\ (BookmarksView.panel = "No bookmarks yet")
                <=> (Members(renderedBookmarks) \cap CatalogIds = {})
          /\ (BookmarksView.panel # "") <=> (BookmarksView.cards = {})

\* C21 witness: the Bookmarks page is rendered with one bookmark, the id of no
\* catalog book, and shows the panel.
C21_Witness ==
    /\ location.path = "/bookmarks"
    /\ renderedBookmarks = <<ForeignId>>
    /\ BookmarksView.panel = "No bookmarks yet"

\* the values of a field over the catalog, in catalog order
FieldValues(field) == [i \in 1..Len(booksData) |-> booksData[i][field]]

\* options is 'all' followed by the values, each once, in the order in which
\* they first occur
AllThenEachOnce(options, values) ==
    /\ Len(options) >= 1
    /\ options[1] = "all"
    /\ \A i \in 1..Len(options), j \in 1..Len(options) :
          i # j => options[i] # options[j]
    /\ Members(Tail(options)) = Members(values)
    /\ IsSubList(Tail(options), values)

\* C22: the genre options and the language options are 'all' followed by the
\* catalog's genres, resp. languages, each once; and with the empty query, one
\* filter at an offered value other than 'all' and the other at 'all', at
\* least one book is listed.
C22_OptionsDistinctAndNonEmpty ==
    /\ AllThenEachOnce(genres, FieldValues("genre"))
    /\ AllThenEachOnce(languages, FieldValues("language"))
    /\ genreFilter \in Members(genres)
    /\ languageFilter \in Members(languages)
    /\ (searchQuery = <<>> /\ genreFilter # "all" /\ languageFilter = "all")
          => Len(filteredBooks) >= 1
    /\ (searchQuery = <<>> /\ genreFilter = "all" /\ languageFilter # "all")
          => Len(filteredBooks) >= 1

\* C22 witness: with the empty query and every language allowed, the genre
\* that one book of three has was selected, and that book is listed.
C22_Witness ==
    /\ event.op = "setGenreFilter"
    /\ searchQuery = <<>>
    /\ genreFilter = "Science"
    /\ languageFilter = "all"
    /\ Ids(filteredBooks) = {"2"}

\* C23: a useLibrary() call by a component with no LibraryProvider among its
\* ancestors throws 'useLibrary must be used within LibraryProvider'; a call
\* with one returns bookmarks, addBookmark, removeBookmark and isBookmarked,
\* the bookmarks being those of the nearest provider.
C23_UseLibraryOutsideProviderThrows ==
    event.op = "useLibrary" =>
        LET chain == event.arg
            providers == {i \in 1..Len(chain) : chain[i].provider}
        IN IF providers = {}
           THEN hookResult =
                    [threw |-> "useLibrary must be used within LibraryProvider"]
           ELSE /\ DOMAIN hookResult = {"returned"}
                /\ DOMAIN hookResult.returned =
                      {"bookmarks", "addBookmark", "removeBookmark",
                       "isBookmarked"}
                /\ \E i \in providers :
                      /\ \A j \in providers : j <= i
                      /\ hookResult.returned.bookmarks = chain[i].bookmarks

\* C23 witness: a component below two elements, neither a LibraryProvider,
\* called useLibrary and the call threw.
C23_Witness ==
    /\ event.op = "useLibrary"
    /\ Len(event.arg) = 2
    /\ hookResult = [threw |-> MustBeUsedWithin]

\* no step changes the imported catalog
BooksImmutable == [][booksData' = booksData]_vars

=============================================================================
